---- MODULE Spec2Model ----
(***************************************************************************)
(* saramPy.api.SaramAPI: the client of the Saram REST service.  Every      *)
(* method builds a payload, issues one blocking HTTP request and inspects  *)
(* the status code of the answer.  The server, the network and the clock   *)
(* are the environment: what they answer is chosen nondeterministically.   *)
(*                                                                         *)
(* A URL is the sequence of the pieces its f-string concatenates, a dict   *)
(* a record, a response body the text on the wire, and a decoded JSON      *)
(* document a tuple starting with its Python type.                         *)
(***************************************************************************)
EXTENDS Integers, Sequences, FiniteSets, TLC

VARIABLES
    conf,              \* the parsed configuration file read by __init__
    base_url,          \* set by Saram.__init__
    _time,             \* set by Saram.__init__
    username,
    apiKey,
    avatar,
    api_url,
    _valid_types,
    _valid_categories,
    _headers,
    _last_timestamp,   \* uuid's module state: the last timestamp uuid1 gave out
    section_ids,       \* ids of the section payloads sent so far, in order
    reset_done,        \* a reset_api_key or change_username was answered 200
    call               \* the last completed call: arguments, traffic, outcome

vars == <<conf, base_url, _time, username, apiKey, avatar, api_url, _valid_types,
          _valid_categories, _headers, _last_timestamp, section_ids, reset_done,
          call>>

client == <<conf, base_url, _time, username, apiKey, avatar, api_url, _valid_types,
            _valid_categories, _headers>>

-----------------------------------------------------------------------------
(* Bounds and input sets *)

MaxTimestamp == 2

\* The argument left out of a call, so that the parameter's default applies.
NoArg == "<default>"

Tokens == {"tokA", "tokB"}
DataIds == {"d1"}
TypeArgs == {"stdout", "image", "bogus"}
Outputs == {"out"}
Commands == {"ls -la"}
CommentArgs == {NoArg, "note"}
Titles == {"X", "Y"}
CategoryArgs == {"scripting", "bogus"}
SlackArgs == {NoArg, "https://slack/1"}
ApiKeys == {"key1", "key2"}
Usernames == {"alice", "bob"}
Nonces == {"n1", "n2"}

ConfFiles ==
    { ("username" :> "alice") @@ ("apiKey" :> "key1"),
      ("username" :> "bob") @@ ("apiKey" :> "key2") @@ ("avatar" :> "/bob.png") }

BaseUrls == {"http://localhost:5001/"}

OK == 200
StatusCodes == {OK, 201, 404, 500}
Texts == {"{\"title\": \"X\"}", "[]", "<html>"}
ErrorTexts == {"{\"title\": \"X\"}", "<html>"}
Responses ==
    [status_code : {OK}, text : Texts]
        \cup [status_code : StatusCodes \ {OK}, text : ErrorTexts]

-----------------------------------------------------------------------------
(* The libraries the methods call *)

\* Response.json(): the body decoded, or the decoder's error.
IsJson(text) == text \in {"{\"title\": \"X\"}", "[]"}

json(r) ==
    CASE r.text = "{\"title\": \"X\"}" -> <<"dict", "title", "X">>
      [] r.text = "[]" -> <<"list">>
      [] OTHER -> <<"JSONDecodeError">>

None == <<"None">>

\* uuid.uuid1(): the clock's reading, pushed past the last timestamp given out.
uuid1(now, last) == IF now <= last THEN last + 1 ELSE now

\* str(uuid): injective.
str(u) == <<"uuid", u>>

\* dict.get(key, default)
get(d, key, default) == IF key \in DOMAIN d THEN d[key] ELSE default

\* A parameter's default value.
Default(arg, default) == IF arg = NoArg THEN default ELSE arg

Headers(key, user) == ("x-saram-apikey" :> key) @@ ("x-saram-username" :> user)

\* requests.<verb>(url, headers=..., json=...); a keyword left out is <<>>.
Request(verb, url, headers, payload) ==
    [verb |-> verb, url |-> url, headers |-> headers, json |-> payload]

\* Saram._token_generator(title)
_token_generator(title, nonce) == <<nonce, title>>

-----------------------------------------------------------------------------
(* A completed call *)

Returned(op, args, reqs, resps, value, printed) ==
    [op |-> op, args |-> args, requests |-> reqs, responses |-> resps,
     raised |-> "none", returned |-> value, printed |-> printed]

Raised(op, args, reqs, resps, exc) ==
    [op |-> op, args |-> args, requests |-> reqs, responses |-> resps,
     raised |-> exc, returned |-> None, printed |-> <<>>]

\* Faulty variant: the success branch falls off the end instead of returning r.json().
ReturnJson_dropped(op, args, req, r) ==
    Returned(op, args, <<req>>, <<r>>, None, <<>>)

\* r.json() as the call's last statement: its value, or the error it raises.
ReturnJson(op, args, req, r) ==
    IF IsJson(r.text)
    THEN Returned(op, args, <<req>>, <<r>>, json(r), <<>>)
    ELSE Raised(op, args, <<req>>, <<r>>, "JSONDecodeError")

\* Faulty variant: a non-200 answer is retried once before giving up.
CheckStatus_retry(op, args, req, r) ==
    IF r.status_code = OK
    THEN ReturnJson(op, args, req, r)
    ELSE Raised(op, args, <<req, req>>, <<r, r>>, "StatusNotOk")

\* if r.status_code == 200: return r.json()  else: raise StatusNotOk(...)
CheckStatus(op, args, req, r) ==
    IF r.status_code = OK
    THEN ReturnJson(op, args, req, r)
    ELSE Raised(op, args, <<req>>, <<r>>, "StatusNotOk")

-----------------------------------------------------------------------------
Init ==
    /\ conf \in ConfFiles
    /\ base_url \in BaseUrls
    /\ _time = "2019-06-01 10:00:00"
    /\ username = conf["username"]
    /\ apiKey = conf["apiKey"]
    /\ avatar = get(conf, "avatar", "/static/saramapi.png")
    /\ api_url = <<base_url, "api/">>
    /\ _valid_types = <<"file", "stdout", "script", "dump", "tool", "image">>
    /\ _valid_categories =
          <<"android", "cryptography", "firmware", "forensics", "hardware", "ios",
            "misc", "network", "pcap", "pwn", "reversing", "stego", "web", "none",
            "other", "scripting">>
    /\ _headers = Headers(apiKey, username)
    /\ _last_timestamp = 0
    /\ section_ids = <<>>
    /\ reset_done = FALSE
    /\ call = Returned("__init__", <<>>, <<>>, <<>>, None, <<>>)

\* x in list
In(x, list) == \E i \in DOMAIN list : list[i] = x

-----------------------------------------------------------------------------
(* get_all_entries *)

get_all_entries_call(r) ==
    CheckStatus("get_all_entries", <<>>,
                Request("GET", api_url \o <<"all/entries">>, _headers, <<>>), r)

get_all_entries ==
    \E r \in Responses :
        /\ call' = get_all_entries_call(r)
        /\ UNCHANGED <<client, _last_timestamp, section_ids, reset_done>>

-----------------------------------------------------------------------------
(* get_entry *)

\* Faulty variant: the headers keyword is left out.
get_entry_call_no_headers(token, r) ==
    CheckStatus("get_entry", [token |-> token],
                Request("GET", api_url \o <<token>>, <<>>, <<>>), r)

get_entry_call(token, r) ==
    CheckStatus("get_entry", [token |-> token],
                Request("GET", api_url \o <<token>>, _headers, <<>>), r)

get_entry ==
    \E token \in Tokens, r \in Responses :
        /\ call' = get_entry_call(token, r)
        /\ UNCHANGED <<client, _last_timestamp, section_ids, reset_done>>

-----------------------------------------------------------------------------
(* delete_entry: the else branch formats r.status, which a Response lacks *)

delete_entry_call(token, r) ==
    LET req == Request("DELETE", api_url \o <<token>>, _headers, <<>>)
        args == [token |-> token]
    IN  IF r.status_code = OK
        THEN ReturnJson("delete_entry", args, req, r)
        ELSE Raised("delete_entry", args, <<req>>, <<r>>, "AttributeError")

delete_entry ==
    \E token \in Tokens, r \in Responses :
        /\ call' = delete_entry_call(token, r)
        /\ UNCHANGED <<client, _last_timestamp, section_ids, reset_done>>

-----------------------------------------------------------------------------
(* create_new_section *)

\* Faulty variant: one id, made when the module is loaded, goes into every payload.
section_payload_one_id(type, output, command, comment, id) ==
    [id |-> str(0),
     type |-> type,
     output |-> output,
     command |-> command,
     user |-> username,
     comment |-> [text |-> comment, username |-> username, avatar |-> avatar],
     options |-> [marked |-> 2],
     time |-> _time]

section_payload(type, output, command, comment, id) ==
    [id |-> id,
     type |-> type,
     output |-> output,
     command |-> command,
     user |-> username,
     comment |-> [text |-> comment, username |-> username, avatar |-> avatar],
     options |-> [marked |-> 2],
     time |-> _time]

\* Faulty variant: the type is checked after the request went out.
create_new_section_call_late_check(token, type, output, command, comment_arg, id, r) ==
    LET comment == Default(comment_arg, "saramPy")
        args == [token |-> token, type |-> type, output |-> output,
                 command |-> command, comment |-> comment_arg]
        payload == section_payload(type, output, command, comment, id)
        req == Request("PATCH", api_url \o <<token>>, _headers, payload)
    IN  IF ~In(type, _valid_types)
        THEN Raised("create_new_section", args, <<req>>, <<r>>, "TypeError")
        ELSE CheckStatus("create_new_section", args, req, r)

create_new_section_call(token, type, output, command, comment_arg, id, r) ==
    LET comment == Default(comment_arg, "saramPy")
        args == [token |-> token, type |-> type, output |-> output,
                 command |-> command, comment |-> comment_arg]
        payload == section_payload(type, output, command, comment, id)
    IN  IF ~In(type, _valid_types)
        THEN Raised("create_new_section", args, <<>>, <<>>, "TypeError")
        ELSE CheckStatus("create_new_section", args,
                         Request("PATCH", api_url \o <<token>>, _headers, payload), r)

create_new_section ==
    \E token \in Tokens, type \in TypeArgs, output \in Outputs, command \in Commands,
       comment_arg \in CommentArgs, now \in 1..MaxTimestamp, r \in Responses :
        LET u == uuid1(now, _last_timestamp)
            done == create_new_section_call(token, type, output, command,
                                            comment_arg, str(u), r)
        IN  /\ u <= MaxTimestamp
            /\ _last_timestamp' = u
            /\ call' = done
            /\ section_ids' = section_ids \o
                                [i \in DOMAIN done.requests |-> done.requests[i].json.id]
            /\ UNCHANGED <<client, reset_done>>

-----------------------------------------------------------------------------
(* add_comment *)

add_comment_call(token, dataid, comment, r) ==
    LET payload == [data |-> [text |-> comment, username |-> username,
                              avatar |-> avatar]]
    IN  CheckStatus("add_comment",
                    [token |-> token, dataid |-> dataid, comment |-> comment],
                    Request("PATCH", api_url \o <<token, "/", dataid, "/comment">>,
                            _headers, payload), r)

add_comment ==
    \E token \in Tokens, dataid \in DataIds, comment \in CommentArgs \ {NoArg},
       r \in Responses :
        /\ call' = add_comment_call(token, dataid, comment, r)
        /\ UNCHANGED <<client, _last_timestamp, section_ids, reset_done>>

-----------------------------------------------------------------------------
(* delete_section *)

\* Faulty variant: the URL of delete_entry, without the section's id.
delete_section_call_entry_url(token, dataid, r) ==
    CheckStatus("delete_section", [token |-> token, dataid |-> dataid],
                Request("DELETE", api_url \o <<token>>, _headers, <<>>), r)

delete_section_call(token, dataid, r) ==
    CheckStatus("delete_section", [token |-> token, dataid |-> dataid],
                Request("DELETE", api_url \o <<token, "/", dataid>>, _headers, <<>>), r)

delete_section ==
    \E token \in Tokens, dataid \in DataIds, r \in Responses :
        /\ call' = delete_section_call(token, dataid, r)
        /\ UNCHANGED <<client, _last_timestamp, section_ids, reset_done>>

-----------------------------------------------------------------------------
(* create_new_entry: on 200 it prints and falls off the end *)

entry_payload(title, category, slack_link) ==
    [title |-> title,
     category |-> category,
     slackLink |-> slack_link,
     timeCreate |-> _time,
     data |-> <<>>]

\* Faulty variant: the category is checked after the request went out.
create_new_entry_call_late_check(title, category, slack_arg, nonce, r) ==
    LET args == [title |-> title, category |-> category, slack_link |-> slack_arg]
        payload == entry_payload(title, category, Default(slack_arg, ""))
        req == Request("POST", api_url \o <<"create/", _token_generator(title, nonce)>>,
                       _headers, payload)
    IN  IF r.status_code # OK
        THEN Raised("create_new_entry", args, <<req>>, <<r>>, "StatusNotOk")
        ELSE IF ~In(category, _valid_categories)
             THEN Raised("create_new_entry", args, <<req>>, <<r>>, "NotValidCategory")
             ELSE Returned("create_new_entry", args, <<req>>, <<r>>, None,
                           <<"Created new entry">>)

\* Faulty variant: the success branch returns r.json(), as every other method does.
create_new_entry_call_returns_json(title, category, slack_arg, nonce, r) ==
    LET args == [title |-> title, category |-> category, slack_link |-> slack_arg]
        payload == entry_payload(title, category, Default(slack_arg, ""))
        req == Request("POST", api_url \o <<"create/", _token_generator(title, nonce)>>,
                       _headers, payload)
    IN  IF ~In(category, _valid_categories)
        THEN Raised("create_new_entry", args, <<>>, <<>>, "NotValidCategory")
        ELSE CheckStatus("create_new_entry", args, req, r)

create_new_entry_call(title, category, slack_arg, nonce, r) ==
    LET slack_link == Default(slack_arg, "")
        args == [title |-> title, category |-> category, slack_link |-> slack_arg]
        token == _token_generator(title, nonce)
        payload == entry_payload(title, category, slack_link)
        req == Request("POST", api_url \o <<"create/", token>>, _headers, payload)
    IN  IF ~In(category, _valid_categories)
        THEN Raised("create_new_entry", args, <<>>, <<>>, "NotValidCategory")
        ELSE IF r.status_code = OK
             THEN Returned("create_new_entry", args, <<req>>, <<r>>, None,
                           <<"Created new entry">>)
             ELSE Raised("create_new_entry", args, <<req>>, <<r>>, "StatusNotOk")

create_new_entry ==
    \E title \in Titles, category \in CategoryArgs, slack_arg \in SlackArgs,
       nonce \in Nonces, r \in Responses :
        /\ call' = create_new_entry_call(title, category, slack_arg, nonce, r)
        /\ UNCHANGED <<client, _last_timestamp, section_ids, reset_done>>

-----------------------------------------------------------------------------
(* reset_api_key *)

reset_api_key_call(old_apikey, user, r) ==
    LET payload == [apiKey |-> old_apikey, username |-> user]
    IN  CheckStatus("reset_api_key", [old_apikey |-> old_apikey, username |-> user],
                    Request("POST", api_url \o <<"reset/key">>, _headers, payload), r)

\* Faulty variant: a 200 answer makes the client adopt the key it sent.
reset_api_key_adopts_key ==
    \E old_apikey \in ApiKeys, user \in Usernames, r \in Responses :
        /\ call' = reset_api_key_call(old_apikey, user, r)
        /\ reset_done' = (reset_done \/ r.status_code = OK)
        /\ apiKey' = IF r.status_code = OK THEN old_apikey ELSE apiKey
        /\ _headers' = Headers(apiKey', username)
        /\ UNCHANGED <<conf, base_url, _time, username, avatar, api_url, _valid_types,
                       _valid_categories, _last_timestamp, section_ids>>

reset_api_key ==
    \E old_apikey \in ApiKeys, user \in Usernames, r \in Responses :
        /\ call' = reset_api_key_call(old_apikey, user, r)
        /\ reset_done' = (reset_done \/ r.status_code = OK)
        /\ UNCHANGED <<client, _last_timestamp, section_ids>>

-----------------------------------------------------------------------------
(* change_username *)

change_username_call(api_key, old_username, new_username, r) ==
    LET payload == [apiKey |-> api_key, username |-> old_username,
                    newUsername |-> new_username]
    IN  CheckStatus("change_username",
                    [api_key |-> api_key, old_username |-> old_username,
                     new_username |-> new_username],
                    Request("POST", api_url \o <<"reset/username">>, _headers, payload),
                    r)

change_username ==
    \E api_key \in ApiKeys, old_username \in Usernames, new_username \in Usernames,
       r \in Responses :
        /\ call' = change_username_call(api_key, old_username, new_username, r)
        /\ reset_done' = (reset_done \/ r.status_code = OK)
        /\ UNCHANGED <<client, _last_timestamp, section_ids>>

-----------------------------------------------------------------------------
(* validate_api_key and get_valid_token: base_url, and no headers keyword *)

validate_api_key_call(api_key, r) ==
    CheckStatus("validate_api_key", [api_key |-> api_key],
                Request("POST", <<base_url, "misc/valid/key">>, <<>>,
                        [key |-> api_key]), r)

validate_api_key ==
    \E api_key \in ApiKeys, r \in Responses :
        /\ call' = validate_api_key_call(api_key, r)
        /\ UNCHANGED <<client, _last_timestamp, section_ids, reset_done>>

get_valid_token_call(title, r) ==
    CheckStatus("get_valid_token", [title |-> title],
                Request("POST", <<base_url, "misc/valid/token">>, <<>>,
                        [title |-> title]), r)

get_valid_token ==
    \E title \in Titles, r \in Responses :
        /\ call' = get_valid_token_call(title, r)
        /\ UNCHANGED <<client, _last_timestamp, section_ids, reset_done>>

-----------------------------------------------------------------------------
Next ==
    \/ get_all_entries
    \/ get_entry
    \/ delete_entry
    \/ create_new_section
    \/ add_comment
    \/ delete_section
    \/ create_new_entry
    \/ reset_api_key
    \/ change_username
    \/ validate_api_key
    \/ get_valid_token

Spec == Init /\ [][Next]_vars

-----------------------------------------------------------------------------
(* The vocabulary of the properties *)

AuthenticatedOps ==
    {"get_all_entries", "get_entry", "delete_entry", "create_new_section",
     "add_comment", "delete_section", "create_new_entry", "reset_api_key",
     "change_username"}

UnauthenticatedOps == {"validate_api_key", "get_valid_token"}

Ops == AuthenticatedOps \cup UnauthenticatedOps

\* The operations whose success path ends in return r.json().
ReturningOps == Ops \ {"create_new_entry"}

SectionTypes == {"file", "stdout", "script", "dump", "tool", "image"}

Categories ==
    {"android", "cryptography", "firmware", "forensics", "hardware", "ios", "misc",
     "network", "pcap", "pwn", "reversing", "stego", "web", "none", "other",
     "scripting"}

Issued == Len(call.requests)

Answered(code) == Issued >= 1 /\ call.responses[Issued].status_code = code

AnsweredNot(code) == Issued >= 1 /\ call.responses[Issued].status_code # code

\* The document a JSON body encodes.
Document(text) ==
    IF text = "[]" THEN <<"list">> ELSE <<"dict", "title", "X">>

PassesValidation ==
    /\ call.op = "create_new_section" => call.args.type \in SectionTypes
    /\ call.op = "create_new_entry" => call.args.category \in Categories

-----------------------------------------------------------------------------
\* C1: whenever a request was issued and answered with a status other than 200,
\* the call raises StatusNotOk and no other error.  delete_entry breaks it: its
\* else branch raises AttributeError while formatting the message.
C1_NonOkRaisesStatusNotOk ==
    (call.op \in Ops /\ AnsweredNot(200)) => call.raised = "StatusNotOk"

\* C2: create_new_section with a type outside {file, stdout, script, dump, tool,
\* image} raises TypeError and issues no HTTP request, whatever the other
\* arguments and whatever the server would have answered.
C2_InvalidTypeRejectedOffline ==
    (call.op = "create_new_section" /\ call.args.type \notin SectionTypes)
        => (call.raised = "TypeError" /\ Issued = 0 /\ call.responses = <<>>)

C2_Witness ==
    /\ call.op = "create_new_section"
    /\ call.args.type = "bogus"
    /\ call.raised = "TypeError"

\* C3: create_new_entry with a category outside the fixed set raises
\* NotValidCategory and issues no HTTP request, so no token reaches the server.
C3_InvalidCategoryRejectedOffline ==
    (call.op = "create_new_entry" /\ call.args.category \notin Categories)
        => (call.raised = "NotValidCategory" /\ Issued = 0 /\ call.responses = <<>>)

C3_Witness ==
    /\ call.op = "create_new_entry"
    /\ call.args.category = "bogus"
    /\ call.raised = "NotValidCategory"

\* C4: every request of an authenticated operation carries x-saram-apikey and
\* x-saram-username, set to the apiKey and username of the configuration read at
\* construction; the requests of validate_api_key and get_valid_token carry
\* neither header, and a 200 answer with a JSON body makes them return.
C4_AuthHeaders ==
    \A i \in DOMAIN call.requests :
        /\ call.op \in AuthenticatedOps =>
              /\ DOMAIN call.requests[i].headers = {"x-saram-apikey", "x-saram-username"}
              /\ call.requests[i].headers["x-saram-apikey"] = conf["apiKey"]
              /\ call.requests[i].headers["x-saram-username"] = conf["username"]
        /\ call.op \in UnauthenticatedOps =>
              /\ DOMAIN call.requests[i].headers = {}
              /\ (call.responses[i].status_code = 200 /\ IsJson(call.responses[i].text))
                    => call.raised = "none"

C4_Witness ==
    /\ call.op = "validate_api_key"
    /\ Issued = 1
    /\ DOMAIN call.requests[1].headers = {}
    /\ Answered(200)
    /\ call.raised = "none"

\* C5: when the server answers 200 with a body that is the JSON document B, every
\* operation that returns a result returns B, with nothing added, dropped or
\* rewrapped.
C5_ReturnsBody ==
    (/\ call.op \in ReturningOps
     /\ Answered(200)
     /\ IsJson(call.responses[Issued].text))
        => /\ call.raised = "none"
           /\ call.returned = Document(call.responses[Issued].text)

C5_Witness ==
    /\ call.op = "get_entry"
    /\ Answered(200)
    /\ call.responses[1].text = "{\"title\": \"X\"}"
    /\ call.returned = <<"dict", "title", "X">>

C7_SingleAttempt ==
    call.op \in Ops =>
        /\ Issued <= 1
        /\ Len(call.responses) = Issued
        /\ (Issued = 1 <=> PassesValidation)
        /\ AnsweredNot(200) => call.raised # "none"

C7_Witness ==
    /\ call.op = "add_comment"
    /\ Issued = 1
    /\ AnsweredNot(200)
    /\ call.raised = "StatusNotOk"

\* The endpoint table: the verb and the path below the base URL.
Endpoint ==
    CASE call.op = "get_all_entries" -> <<"GET", <<"api/", "all/entries">> >>
      [] call.op = "get_entry" -> <<"GET", <<"api/", call.args.token>> >>
      [] call.op = "delete_entry" -> <<"DELETE", <<"api/", call.args.token>> >>
      [] call.op = "create_new_section" -> <<"PATCH", <<"api/", call.args.token>> >>
      [] call.op = "add_comment" ->
            <<"PATCH", <<"api/", call.args.token, "/", call.args.dataid, "/comment">> >>
      [] call.op = "delete_section" ->
            <<"DELETE", <<"api/", call.args.token, "/", call.args.dataid>> >>
      [] call.op = "reset_api_key" -> <<"POST", <<"api/", "reset/key">> >>
      [] call.op = "change_username" -> <<"POST", <<"api/", "reset/username">> >>
      [] call.op = "validate_api_key" -> <<"POST", <<"misc/valid/key">> >>
      [] call.op = "get_valid_token" -> <<"POST", <<"misc/valid/token">> >>

\* C8: each operation issues its request with the verb and the path of the
\* endpoint table, under <base>api/ when authenticated and <base>misc/ when not.
C8_Endpoints ==
    \A i \in DOMAIN call.requests :
        IF call.op = "create_new_entry"
        THEN /\ call.requests[i].verb = "POST"
             /\ \E nonce \in Nonces :
                    call.requests[i].url =
                        <<base_url, "api/", "create/",
                          _token_generator(call.args.title, nonce)>>
        ELSE /\ call.requests[i].verb = Endpoint[1]
             /\ call.requests[i].url = <<base_url>> \o Endpoint[2]

C8_Witness ==
    /\ call.op = "delete_section"
    /\ Issued = 1
    /\ call.requests[1].verb = "DELETE"
    /\ call.requests[1].url = <<base_url, "api/", "tokB", "/", "d1">>

C10_ConfigurationFrozen ==
    [][/\ <<username, apiKey, avatar, _headers, _valid_types, _valid_categories>>'
            = <<username, apiKey, avatar, _headers, _valid_types, _valid_categories>>
       /\ (reset_done /\ call'.op \in AuthenticatedOps) =>
             \A i \in DOMAIN call'.requests :
                 call'.requests[i].headers = Headers(conf["apiKey"], conf["username"])
      ]_vars

C10_Witness ==
    /\ reset_done
    /\ call.op = "get_entry"
    /\ Issued = 1
    /\ call.requests[1].headers = Headers(conf["apiKey"], conf["username"])
    /\ apiKey = conf["apiKey"]
    /\ username = conf["username"]

====
